---- MODULE Spec2Model ----
(***************************************************************************)
(* Model of optimized_student_management.py: the Student dataclass with    *)
(* its __post_init__ validation and OptimizedStudentManager, the keyed     *)
(* record store that is loaded from and rewritten to a JSON file; and of   *)
(* optimized_password_generator.py: PasswordGenerator, under PwSpec.       *)
(*                                                                         *)
(* Text is a sequence of one-character strings, so that str.strip() and    *)
(* int() are computed and not assumed.  The students dict is a sequence of *)
(* key/value pairs in insertion order, as a Python dict is.                *)
(***************************************************************************)
EXTENDS Integers, Sequences, FiniteSets, TLC

VARIABLES students, file, faults, op, student_id, ret, msg, wr, found

\* the call of the PasswordGenerator at hand: where it is, the method, its
\* arguments, and what it returned or raised
VARIABLES pc, call, count, length, char_types, password, passwords, error

\* the state of the student manager, and that of the password generator
stvars == <<students, file, faults, op, student_id, ret, msg, wr, found>>
pwvars == <<pc, call, count, length, char_types, password, passwords, error>>

vars == <<stvars, pwvars>>

(* ---------------------------- bounds ---------------------------------- *)

\* longest list of entries in the file the program is first started on
MaxFileLen == 2
\* how many writes of the file in a row the operating system refuses or breaks
MaxFaults == 1
\* longest password asked for
MaxLength == 2
\* most passwords asked for in one call of generate_multiple_passwords
MaxCount == 2

(* ---------------------------- text ------------------------------------ *)

Whitespace == {" "}

RECURSIVE LStrip(_)
LStrip(s) ==
    IF s = <<>> THEN s
    ELSE IF Head(s) \in Whitespace THEN LStrip(Tail(s)) ELSE s

RECURSIVE RStrip(_)
RStrip(s) ==
    IF s = <<>> THEN s
    ELSE IF s[Len(s)] \in Whitespace THEN RStrip(SubSeq(s, 1, Len(s) - 1)) ELSE s

\* str.strip()
Strip(s) == RStrip(LStrip(s))

DigitChars == <<"0", "1", "2", "3", "4", "5", "6", "7", "8", "9">>

IsDigit(c) == \E i \in 1..Len(DigitChars) : DigitChars[i] = c

DigitValue(c) == (CHOOSE i \in 1..Len(DigitChars) : DigitChars[i] = c) - 1

\* the digits of int()'s argument once surrounding blanks and a sign are gone
Unsigned(s) ==
    LET t == Strip(s)
    IN  IF t # <<>> /\ Head(t) \in {"+", "-"} THEN Tail(t) ELSE t

\* int(s) returns a value; otherwise it raises ValueError
IsIntText(s) ==
    /\ Unsigned(s) # <<>>
    /\ \A i \in 1..Len(Unsigned(s)) : IsDigit(Unsigned(s)[i])

RECURSIVE Magnitude(_)
Magnitude(ds) ==
    IF ds = <<>> THEN 0
    ELSE 10 * Magnitude(SubSeq(ds, 1, Len(ds) - 1)) + DigitValue(ds[Len(ds)])

\* int(s), for a text int() accepts
ParseInt(s) ==
    LET t == Strip(s)
    IN  IF Head(t) = "-" THEN 0 - Magnitude(Unsigned(s)) ELSE Magnitude(Unsigned(s))

(* ---------------------------- Student --------------------------------- *)

MinAge == 0
MaxAge == 150

Student(id, name, age, grade) == [id |-> id, name |-> name, age |-> age, grade |-> grade]

\* PostInitError without the upper bound of the age
PostInitErrorNoMaxAge(s) ==
    IF Strip(s.id) = <<>> THEN "Student ID cannot be empty"
    ELSE IF Strip(s.name) = <<>> THEN "Student name cannot be empty"
    ELSE IF s.age < MinAge THEN "Age must be between 0 and 150"
    ELSE IF Strip(s.grade) = <<>> THEN "Grade cannot be empty"
    ELSE ""

\* Student.__post_init__: the message of the ValueError it raises, "" when
\* it raises none.  The checks run in the order of the source.
PostInitError(s) ==
    IF Strip(s.id) = <<>> THEN "Student ID cannot be empty"
    ELSE IF Strip(s.name) = <<>> THEN "Student name cannot be empty"
    ELSE IF s.age < MinAge \/ s.age > MaxAge THEN "Age must be between 0 and 150"
    ELSE IF Strip(s.grade) = <<>> THEN "Grade cannot be empty"
    ELSE ""

(* ---------------------------- dict ------------------------------------ *)

Keys(d) == {d[i].key : i \in 1..Len(d)}

\* key in d
HasKey(d, k) == k \in Keys(d)

\* d[k], for a key d holds
DictGet(d, k) == d[CHOOSE i \in 1..Len(d) : d[i].key = k].val

\* d.get(k) as an optional value: <<v>> or <<>> for None
DictFind(d, k) == IF HasKey(d, k) THEN <<DictGet(d, k)>> ELSE <<>>

\* d.values(), in insertion order
Values(d) == [i \in 1..Len(d) |-> d[i].val]

\* DictSet as list.append, which the list of the first version of the
\* program did: a key the dict holds gets a second entry
DictSetAppend(d, k, v) == Append(d, [key |-> k, val |-> v])

\* d[k] = v: replaces the value of a key the dict holds, in place, and
\* appends a new key
DictSet(d, k, v) ==
    IF HasKey(d, k)
    THEN [i \in 1..Len(d) |-> IF d[i].key = k THEN [key |-> k, val |-> v] ELSE d[i]]
    ELSE Append(d, [key |-> k, val |-> v])

\* DictPop as d.popitem(), which removes the entry inserted last whatever
\* the key
DictPopItem(d, k) == SubSeq(d, 1, Len(d) - 1)

\* d.pop(k)
DictPop(d, k) == SelectSeq(d, LAMBDA e : e.key # k)

(* ---------------------------- the file -------------------------------- *)

\* The data file is absent, holds text json.load rejects, or holds a JSON
\* list of objects with the keys id, name, age and grade.
MissingFile == [kind |-> "missing", data |-> <<>>]
CorruptFile == [kind |-> "corrupt", data |-> <<>>]
JsonFile(entries) == [kind |-> "json", data |-> entries]

\* the loop of load_data from entry i on: Student(**student_data) raises at
\* the first entry that fails validation, which ends the loop and leaves
\* what the loop has stored so far
RECURSIVE LoadLoop(_, _, _)
LoadLoop(data, i, d) ==
    IF i > Len(data) THEN [students |-> d, msg |-> "Loaded"]
    ELSE IF PostInitError(data[i]) # "" THEN [students |-> d, msg |-> "Error loading data"]
    ELSE LoadLoop(data, i + 1, DictSet(d, data[i].id, data[i]))

\* __init__ and load_data: the dict a new manager holds and what it prints
LoadData(f) ==
    IF f.kind = "missing" THEN [students |-> <<>>, msg |-> ""]
    ELSE IF f.kind = "corrupt" THEN [students |-> <<>>, msg |-> "Error loading data"]
    ELSE LoadLoop(f.data, 1, <<>>)

\* save_data: the file afterwards and whether the write went through.  A
\* write fails in open(), which leaves the file as it was, or after it,
\* which leaves a truncated file; save_data catches the IOError.
SaveData(d, f) ==
    {[file |-> JsonFile(Values(d)), wr |-> "ok", faults |-> 0]}
    \cup (IF faults < MaxFaults
          THEN {[file |-> f, wr |-> "failed", faults |-> faults + 1],
                [file |-> CorruptFile, wr |-> "failed", faults |-> faults + 1]}
          ELSE {})

(* ---------------------------- inputs ---------------------------------- *)

\* entries of the file the program is first started on
FileEntries ==
    { Student(<<"a">>, <<"n">>, 0, <<"g">>),
      Student(<<"a">>, <<"m">>, 150, <<"h">>),
      Student(<<"b">>, <<"n">>, 150, <<"g">>),
      Student(<<"b">>, <<" ">>, 151, <<"h">>) }

RECURSIVE SeqsUpTo(_, _)
SeqsUpTo(S, n) ==
    IF n = 0 THEN {<<>>}
    ELSE LET shorter == SeqsUpTo(S, n - 1)
         IN  shorter \cup {Append(s, x) : s \in shorter, x \in S}

InitialFiles ==
    {MissingFile, CorruptFile} \cup {JsonFile(es) : es \in SeqsUpTo(FileEntries, MaxFileLen)}

\* What the user types at the prompts.  Record a is the one that is
\* updated; record b stands by.
SearchIds == {<<"a">>, <<" ", "b", " ">>}
DeleteIds == {<<"a", " ">>, <<"b">>}
UpdateIds == {<<" ", "a">>}
UpdateNames == {<<>>, <<"m", " ">>}
UpdateAges == {<<" ">>, <<"x">>, <<"0">>, <<"1", "5", "1">>}
UpdateGrades == {<<" ">>, <<"h">>}

\* answers to the prompts of add_student
GoodIds == {<<"a">>, <<" ", "b", " ">>}
GoodNames == {<<" ", "n">>}
GoodAges == {<<"0">>, <<" ", "1", "5", "0">>}
GoodGrades == {<<"g", " ">>}
BadIds == {<<>>, <<" ">>}
BadNames == {<<>>, <<" ">>}
BadAges == {<<"x">>, <<"1", "5", "1">>, <<"-", "1">>}
BadGrades == {<<>>, <<" ", " ">>}

Answers(ids, names, ages, grades) ==
    {[id |-> i, name |-> n, age |-> a, grade |-> g] :
        i \in ids, n \in names, a \in ages, g \in grades}

\* The answers add_student is run on: record a is added with age 0 and
\* record b with age 150, and each invalid answer is given in the place of
\* one answer of a valid set.
AddInputs ==
    Answers({<<"a">>}, GoodNames, {<<"0">>}, GoodGrades)
    \cup Answers({<<" ", "b", " ">>}, GoodNames, {<<" ", "1", "5", "0">>}, GoodGrades)
    \cup Answers(BadIds, GoodNames, {<<"0">>}, GoodGrades)
    \cup Answers({<<" ", "b", " ">>}, BadNames, {<<"0">>}, GoodGrades)
    \cup Answers({<<" ", "b", " ">>}, GoodNames, BadAges, GoodGrades)
    \cup Answers({<<" ", "b", " ">>}, GoodNames, {<<"0">>}, BadGrades)

(* ---------------------------- operations ------------------------------ *)

\* a PasswordGenerator that no method has been called on
NoCall ==
    /\ pc = "idle"
    /\ call = "none"
    /\ count = 0
    /\ length = 0
    /\ char_types = {}
    /\ password = <<>>
    /\ passwords = <<>>
    /\ error = ""

Init ==
    /\ NoCall
    /\ file \in InitialFiles
    /\ students = LoadData(file).students
    /\ msg = LoadData(file).msg
    /\ faults = 0
    /\ op = "load"
    /\ student_id = <<>>
    /\ ret = TRUE
    /\ wr = "none"
    /\ found = <<>>

\* a new OptimizedStudentManager on the same file (the program is run again)
Restart ==
    /\ students' = LoadData(file).students
    /\ msg' = LoadData(file).msg
    /\ op' = "load"
    /\ student_id' = <<>>
    /\ ret' = TRUE
    /\ wr' = "none"
    /\ found' = <<>>
    /\ UNCHANGED <<file, faults>>
    /\ UNCHANGED pwvars

\* the lookup of search_student: dict.get on the stripped input
Get(d, rawId) == DictFind(d, Strip(rawId))

\* search_student
SearchStudent(rawId) ==
    /\ op' = "search"
    /\ student_id' = Strip(rawId)
    /\ found' = Get(students, rawId)
    /\ ret' = (Get(students, rawId) # <<>>)
    /\ msg' = IF Get(students, rawId) # <<>> THEN "Found" ELSE "Student not found."
    /\ wr' = "none"
    /\ UNCHANGED <<students, file, faults>>
    /\ UNCHANGED pwvars

\* an operation that returns False after printing m, the dict as it is
Reject(m) ==
    /\ ret' = FALSE
    /\ msg' = m
    /\ wr' = "none"
    /\ UNCHANGED <<students, file, faults>>

\* Commit without its call of save_data()
CommitNoSave(d, m) ==
    /\ students' = d
    /\ wr' = "none"
    /\ ret' = TRUE
    /\ msg' = m
    /\ UNCHANGED <<file, faults>>

\* Commit with a save_data() that lets the IOError out: the operation undoes
\* its change and returns False
CommitOrRollBack(d, m) ==
    \E out \in SaveData(d, file) :
        /\ file' = out.file
        /\ wr' = out.wr
        /\ faults' = out.faults
        /\ students' = IF out.wr = "ok" THEN d ELSE students
        /\ ret' = (out.wr = "ok")
        /\ msg' = IF out.wr = "ok" THEN m ELSE "Error saving data"

\* the end of a mutation: the dict is d, save_data() runs, then the
\* operation prints m and returns True whatever save_data met
Commit(d, m) ==
    /\ students' = d
    /\ \E out \in SaveData(d, file) :
          /\ file' = out.file
          /\ wr' = out.wr
          /\ faults' = out.faults
    /\ ret' = TRUE
    /\ msg' = m

\* NewStudent with name and grade in each other's place
NewStudentSwapped(sid, rawName, rawAge, rawGrade) ==
    Student(sid, Strip(rawGrade), ParseInt(rawAge), Strip(rawName))

\* Student(student_id, name, age, grade) of add_student, from the answers
NewStudent(sid, rawName, rawAge, rawGrade) ==
    Student(sid, Strip(rawName), ParseInt(rawAge), Strip(rawGrade))

\* whether add_student stops at its check for a duplicate id, without it
IsDuplicateUnchecked(d, sid) == FALSE

\* whether add_student stops at its check for a duplicate id
IsDuplicate(d, sid) == HasKey(d, sid)

\* add_student up to its return or its call of save_data(): whether it
\* goes on to save, what it prints and the dict it leaves
AddOutcome(d, rawId, rawName, rawAge, rawGrade) ==
    LET sid == Strip(rawId)
        student == NewStudent(sid, rawName, rawAge, rawGrade)
    IN  IF IsDuplicate(d, sid)
        THEN [ok |-> FALSE, msg |-> "Student ID already exists!", students |-> d]
        ELSE IF ~IsIntText(rawAge)
        THEN [ok |-> FALSE, msg |-> "invalid literal for int()", students |-> d]
        ELSE IF PostInitError(student) # ""
        THEN [ok |-> FALSE, msg |-> PostInitError(student), students |-> d]
        ELSE [ok |-> TRUE, msg |-> "Student added successfully!",
              students |-> DictSet(d, sid, student)]

\* add_student
AddStudent(rawId, rawName, rawAge, rawGrade) ==
    LET r == AddOutcome(students, rawId, rawName, rawAge, rawGrade)
    IN  /\ op' = "add"
        /\ student_id' = Strip(rawId)
        /\ found' = <<>>
        /\ IF r.ok THEN Commit(r.students, r.msg) ELSE Reject(r.msg)
        /\ UNCHANGED pwvars

\* an update that returns False after printing m, with the dict as the
\* assignments made before the ValueError have left it
RejectUpdate(d, m) ==
    /\ students' = d
    /\ ret' = FALSE
    /\ msg' = m
    /\ wr' = "none"
    /\ UNCHANGED <<file, faults>>

\* UpdateOutcome with an age that falls back to 0, not to the current age,
\* when the age answer is empty
UpdateOutcomeAgeReset(d, rawId, rawName, rawAge, rawGrade) ==
    LET sid == Strip(rawId)
        name == Strip(rawName)
        age_input == Strip(rawAge)
        grade == Strip(rawGrade)
        current == DictGet(d, sid)
        named == IF name # <<>> THEN [current EXCEPT !.name = name] ELSE current
        aged == [named EXCEPT !.age = IF age_input # <<>> THEN ParseInt(age_input) ELSE 0]
        graded == IF grade # <<>> THEN [aged EXCEPT !.grade = grade] ELSE aged
    IN  IF age_input # <<>> /\ ~IsIntText(age_input)
        THEN [ok |-> FALSE, msg |-> "invalid literal for int()",
              students |-> DictSet(d, sid, named)]
        ELSE IF PostInitError(graded) # ""
        THEN [ok |-> FALSE, msg |-> PostInitError(graded),
              students |-> DictSet(d, sid, graded)]
        ELSE [ok |-> TRUE, msg |-> "Student updated successfully!",
              students |-> DictSet(d, sid, graded)]

\* update_student, for an id the dict holds, up to its return or its call
\* of save_data().  current_student is the object the dict holds, so each
\* assignment to one of its fields is an assignment to the stored record.
UpdateOutcome(d, rawId, rawName, rawAge, rawGrade) ==
    LET sid == Strip(rawId)
        name == Strip(rawName)
        age_input == Strip(rawAge)
        grade == Strip(rawGrade)
        current == DictGet(d, sid)
        named == IF name # <<>> THEN [current EXCEPT !.name = name] ELSE current
        aged == IF age_input # <<>> THEN [named EXCEPT !.age = ParseInt(age_input)] ELSE named
        graded == IF grade # <<>> THEN [aged EXCEPT !.grade = grade] ELSE aged
    IN  IF age_input # <<>> /\ ~IsIntText(age_input)
        THEN [ok |-> FALSE, msg |-> "invalid literal for int()",
              students |-> DictSet(d, sid, named)]
        ELSE IF PostInitError(graded) # ""
        THEN [ok |-> FALSE, msg |-> PostInitError(graded),
              students |-> DictSet(d, sid, graded)]
        ELSE [ok |-> TRUE, msg |-> "Student updated successfully!",
              students |-> DictSet(d, sid, graded)]

\* update_student
UpdateStudent(rawId, rawName, rawAge, rawGrade) ==
    LET r == UpdateOutcome(students, rawId, rawName, rawAge, rawGrade)
    IN  /\ op' = "update"
        /\ student_id' = Strip(rawId)
        /\ found' = <<>>
        /\ IF ~HasKey(students, Strip(rawId)) THEN Reject("Student not found.")
           ELSE IF r.ok THEN Commit(r.students, r.msg)
           ELSE RejectUpdate(r.students, r.msg)
        /\ UNCHANGED pwvars

\* delete_student
DeleteStudent(rawId) ==
    LET sid == Strip(rawId)
    IN  /\ op' = "delete"
        /\ student_id' = sid
        /\ found' = <<>>
        /\ IF HasKey(students, sid)
           THEN Commit(DictPop(students, sid), "deleted successfully!")
           ELSE Reject("Student not found.")
        /\ UNCHANGED pwvars

\* save_data() and then a second manager on the same file, as
\* test_student_management does; the second manager's dict becomes the
\* current one
SaveReload ==
    /\ \E out \in SaveData(students, file) :
          /\ file' = out.file
          /\ wr' = out.wr
          /\ faults' = out.faults
    /\ students' = LoadData(file').students
    /\ msg' = LoadData(file').msg
    /\ op' = "reload"
    /\ student_id' = <<>>
    /\ ret' = TRUE
    /\ found' = <<>>
    /\ UNCHANGED pwvars

Next ==
    \/ Restart
    \/ SaveReload
    \/ \E i \in SearchIds : SearchStudent(i)
    \/ \E t \in AddInputs : AddStudent(t.id, t.name, t.age, t.grade)
    \/ \E i \in UpdateIds, n \in UpdateNames, a \in UpdateAges, g \in UpdateGrades :
          UpdateStudent(i, n, a, g)
    \/ \E i \in DeleteIds : DeleteStudent(i)

Spec == Init /\ [][Next]_vars

(* ---------------------------- the password generator ------------------ *)

\* self.char_sets, each class standing with its first and its last
\* character: string.ascii_uppercase, string.ascii_lowercase,
\* string.digits and string.punctuation
char_sets ==
    [ upper |-> {"A", "Z"},
      lower |-> {"a", "z"},
      digits |-> {"0", "9"},
      special |-> {"!", "~"} ]

\* character_pool with the characters of every class, selected or not
CharacterPoolOfAll(types) == UNION {char_sets[t] : t \in DOMAIN char_sets}

\* the characters of character_pool: those of the selected classes that
\* are keys of char_sets; a name that is no key is passed over
CharacterPool(types) == UNION {char_sets[t] : t \in types \cap DOMAIN char_sets}

\* the ValueError generate_password raises, "" when it raises none
GenerateError(n, types) ==
    IF n <= 0 THEN "Password length must be positive"
    ELSE IF types = {} THEN "At least one character type must be selected"
    ELSE IF CharacterPool(types) = {} THEN "Invalid character types provided"
    ELSE ""

\* what a call of generate_password can come to: the ValueError, or any
\* string of n characters, each one secrets.choice takes from the pool
generate_password(n, types) ==
    IF GenerateError(n, types) # ""
    THEN {[error |-> GenerateError(n, types), password |-> <<>>]}
    ELSE {[error |-> "", password |-> p] : p \in [1..n -> CharacterPool(types)]}

\* what a call of generate_multiple_passwords can come to: the list
\* comprehension calls generate_password once for each of range(c); the
\* ValueError of a call, which the arguments decide, ends it at the first
\* call, and otherwise the list holds what each call returned
generate_multiple_passwords(c, n, types) ==
    IF c <= 0 THEN {[error |-> "", passwords |-> <<>>]}
    ELSE IF \E g \in generate_password(n, types) : g.error # ""
    THEN {[error |-> g.error, passwords |-> <<>>] :
             g \in {h \in generate_password(n, types) : h.error # ""}}
    ELSE {[error |-> "", passwords |-> ps] :
             ps \in [1..c -> {g.password : g \in generate_password(n, types)}]}

\* the arguments the generator is called with; "emoji" is a name that is
\* no key of char_sets
Lengths == -1..MaxLength
Counts == -1..MaxCount
ManyTypes ==
    { {}, {"emoji"}, {"digits"}, {"digits", "emoji"}, {"upper", "lower"} }
GenerateTypes == ManyTypes \cup { {"upper", "lower", "digits", "special"} }

\* a new PasswordGenerator, and no student manager at work
PwInit ==
    /\ NoCall
    /\ file = MissingFile
    /\ students = LoadData(MissingFile).students
    /\ msg = LoadData(MissingFile).msg
    /\ faults = 0
    /\ op = "load"
    /\ student_id = <<>>
    /\ ret = TRUE
    /\ wr = "none"
    /\ found = <<>>

\* generator.generate_password(length, char_types)
GeneratePassword(n, types) ==
    /\ pc = "idle"
    /\ call' = "generate_password"
    /\ count' = 1
    /\ length' = n
    /\ char_types' = types
    /\ \E g \in generate_password(n, types) :
          /\ pc' = IF g.error = "" THEN "returned" ELSE "raised"
          /\ password' = g.password
          /\ error' = g.error
    /\ passwords' = <<>>
    /\ UNCHANGED stvars

\* generator.generate_multiple_passwords(count, length, char_types)
GenerateMultiplePasswords(c, n, types) ==
    /\ pc = "idle"
    /\ call' = "generate_multiple_passwords"
    /\ count' = c
    /\ length' = n
    /\ char_types' = types
    /\ \E g \in generate_multiple_passwords(c, n, types) :
          /\ pc' = IF g.error = "" THEN "returned" ELSE "raised"
          /\ passwords' = g.passwords
          /\ error' = g.error
    /\ password' = <<>>
    /\ UNCHANGED stvars

\* the caller goes on to its next call; the generator keeps nothing of
\* the call before
NextCall ==
    /\ pc # "idle"
    /\ pc' = "idle"
    /\ call' = "none"
    /\ count' = 0
    /\ length' = 0
    /\ char_types' = {}
    /\ password' = <<>>
    /\ passwords' = <<>>
    /\ error' = ""
    /\ UNCHANGED stvars

PwNext ==
    \/ \E n \in Lengths, types \in GenerateTypes : GeneratePassword(n, types)
    \/ \E c \in Counts, n \in Lengths, types \in ManyTypes :
          GenerateMultiplePasswords(c, n, types)
    \/ NextCall

PwSpec == PwInit /\ [][PwNext]_vars

(* ---------------------------- claims ---------------------------------- *)

\* the messages add_student prints after "Error: " when it catches a
\* ValueError: those of Student.__post_init__ and that of int()
ValidationErrors ==
    { "Student ID cannot be empty", "Student name cannot be empty",
      "Age must be between 0 and 150", "Grade cannot be empty",
      "invalid literal for int()" }

\* the answers the claims about add_student are checked on, in every
\* reachable state: the valid ones, and those with one invalid answer
AddAnswers ==
    Answers(GoodIds, GoodNames, GoodAges, GoodGrades)
    \cup Answers(BadIds, GoodNames, GoodAges, GoodGrades)
    \cup Answers(GoodIds, BadNames, GoodAges, GoodGrades)
    \cup Answers(GoodIds, GoodNames, BadAges, GoodGrades)
    \cup Answers(GoodIds, GoodNames, GoodAges, BadGrades)

Mutators == {"add", "update", "delete"}

\* the records a dict holds, as a set
RecordSet(d) == {d[i].val : i \in 1..Len(d)}

\* a record that fails validation: an empty or blank id, name or grade, or
\* an age outside 0..150
Invalid(s) ==
    \/ Strip(s.id) = <<>>
    \/ Strip(s.name) = <<>>
    \/ Strip(s.grade) = <<>>
    \/ s.age < 0
    \/ s.age > 150

\* what update_student is to make of a record and the three answers: an
\* answer that is empty or blank keeps the field
Supplied(old, rawName, rawAge, rawGrade) ==
    [ id |-> old.id,
      name |-> IF Strip(rawName) = <<>> THEN old.name ELSE Strip(rawName),
      age |-> IF Strip(rawAge) = <<>> THEN old.age ELSE ParseInt(rawAge),
      grade |-> IF Strip(rawGrade) = <<>> THEN old.grade ELSE Strip(rawGrade) ]

\* C1: for every stored record and all answers, an update whose resulting
\* record fails validation returns False and leaves the stored record with
\* the name, age and grade it had before.
C1_UpdateRejectedAtomically ==
    [][ op' = "update"
        => \A i \in UpdateIds, n \in UpdateNames, a \in UpdateAges, g \in UpdateGrades :
              ( /\ HasKey(students, Strip(i))
                /\ Strip(a) = <<>> \/ IsIntText(a)
                /\ Invalid(Supplied(DictGet(students, Strip(i)), n, a, g))
                /\ UpdateStudent(i, n, a, g) )
              => /\ ret' = FALSE
                 /\ Get(students', i) = Get(students, i) ]_vars

\* C2: every record the dict holds has a non-empty id, a non-empty name, a
\* non-empty grade and an age from 0 to 150.
C2_StoredRecordsValid ==
    \A i \in 1..Len(students) :
        /\ students[i].val.id # <<>>
        /\ students[i].val.name # <<>>
        /\ students[i].val.grade # <<>>
        /\ students[i].val.age >= 0
        /\ students[i].val.age <= 150

\* C3: a manager whose load met a file that does not parse, or an entry
\* that fails validation, holds no record.
C3_FailedLoadLeavesEmpty ==
    (op = "load" /\ msg = "Error loading data") => students = <<>>

\* C4: save_data() and then a new manager on the same file gives, when the
\* write went through, the set of records the first manager held.
C4_SaveReloadRoundTrip ==
    [][ (op' = "reload" /\ wr' = "ok") => RecordSet(students') = RecordSet(students) ]_vars

\* C5: an add, update or delete that returned True has run save_data, and
\* when the write went through the file holds the records of the dict.
C5_SuccessMeansSaved ==
    (op \in Mutators /\ ret = TRUE)
    => /\ wr \in {"ok", "failed"}
       /\ wr = "ok" => (file.kind = "json"
                        /\ {file.data[i] : i \in 1..Len(file.data)} = RecordSet(students))

C5_Witness ==
    /\ op \in Mutators
    /\ ret = TRUE
    /\ wr = "ok"
    /\ Len(students) = 2

\* C6: when the write of save_data fails in add, update or delete, the
\* operation returns True all the same and the dict keeps the change: the
\* added record is in it, the updated record has the supplied fields, the
\* deleted record is gone.
C6_FailedWriteKeepsChange ==
    [][ (op' \in Mutators /\ wr' = "failed")
        => /\ ret' = TRUE
           /\ op' = "add"
              => (~HasKey(students, student_id') /\ HasKey(students', student_id'))
           /\ op' = "delete"
              => (HasKey(students, student_id') /\ ~HasKey(students', student_id'))
           /\ op' = "update"
              => \A i \in UpdateIds, n \in UpdateNames, a \in UpdateAges, g \in UpdateGrades :
                    UpdateStudent(i, n, a, g)
                    => Get(students', i) = <<Supplied(DictGet(students, Strip(i)), n, a, g)>>
       ]_vars

C6_Witness ==
    /\ op \in Mutators
    /\ wr = "failed"
    /\ ret = TRUE
    /\ file.kind # "json" \/ {file.data[i] : i \in 1..Len(file.data)} # RecordSet(students)

\* C7: every record is stored under the key that is its own id, and no two
\* stored records have the same id.
C7_KeyedByOwnId ==
    /\ \A i \in 1..Len(students) : students[i].key = students[i].val.id
    /\ \A i, j \in 1..Len(students) :
          students[i].val.id = students[j].val.id => i = j

\* a manager just loaded from a file that holds two entries with one id
C7_Witness ==
    /\ op = "load"
    /\ msg = "Loaded"
    /\ file.kind = "json"
    /\ \E i, j \in 1..Len(file.data) : i # j /\ file.data[i].id = file.data[j].id
    /\ students # <<>>

\* C8: an add whose id (the answer, stripped) is a key of the dict returns
\* False with the duplicate message and the dict as it was, whatever the
\* other answers are, and has not written the file.
C8_DuplicateAddRejected ==
    /\ \A t \in AddAnswers :
          HasKey(students, Strip(t.id))
          => AddOutcome(students, t.id, t.name, t.age, t.grade)
               = [ok |-> FALSE, msg |-> "Student ID already exists!", students |-> students]
    /\ (op = "add" /\ msg = "Student ID already exists!") => (ret = FALSE /\ wr = "none")

C8_Witness ==
    /\ op = "add"
    /\ msg = "Student ID already exists!"
    /\ Len(students) = 2

\* answers add_student has to refuse: an age outside 0..150, or an id, name
\* or grade that is empty or blank
BadAnswers(t) ==
    \/ Strip(t.id) = <<>>
    \/ Strip(t.name) = <<>>
    \/ Strip(t.grade) = <<>>
    \/ IsIntText(t.age) /\ (ParseInt(t.age) < 0 \/ ParseInt(t.age) > 150)

\* C9, as the claim has it: add with such answers returns False with a
\* validation error and leaves the dict as it was.
C9_BadAnswersGiveValidationError ==
    [][ op' = "add"
        => \A t \in AddInputs :
              (BadAnswers(t) /\ AddStudent(t.id, t.name, t.age, t.grade))
              => /\ ret' = FALSE
                 /\ msg' \in ValidationErrors
                 /\ students' = students ]_vars

\* C9, amended: add with such answers returns False and leaves the dict as
\* it was; it prints a validation error when the id is not a key of the
\* dict, and the duplicate message when it is.
C9_BadAnswersRejected ==
    \A t \in AddAnswers :
        BadAnswers(t)
        => LET r == AddOutcome(students, t.id, t.name, t.age, t.grade)
           IN  /\ ~r.ok
               /\ r.students = students
               /\ IF HasKey(students, Strip(t.id))
                  THEN r.msg = "Student ID already exists!"
                  ELSE r.msg \in ValidationErrors

C9_Witness ==
    /\ op = "add"
    /\ ret = FALSE
    /\ msg = "Age must be between 0 and 150"
    /\ students # <<>>

\* C10: add with valid answers and an id that is not a key of the dict
\* returns True; a search for the same id then finds a record with the id,
\* name and grade as answered (stripped) and the age as int() reads it, and
\* every record stored before is as it was.
C10_AddThenGet ==
    \A t \in AddAnswers :
        (~BadAnswers(t) /\ IsIntText(t.age) /\ ~HasKey(students, Strip(t.id)))
        => LET r == AddOutcome(students, t.id, t.name, t.age, t.grade)
           IN  /\ r.ok
               /\ Get(r.students, t.id)
                    = <<Student(Strip(t.id), Strip(t.name), ParseInt(t.age), Strip(t.grade))>>
               /\ \A k \in Keys(students) : DictFind(r.students, k) = DictFind(students, k)

C10_Witness ==
    /\ op = "add"
    /\ ret = TRUE
    /\ Len(students) = 2
    /\ Get(students, student_id) # <<>>

\* the ids the claims about update_student are checked on
UpdateKeys == UpdateIds \cup {<<"b", " ">>}

\* C11: for every stored record and all answers, an update that succeeds
\* leaves under the record's key the record with the same id and with
\* exactly the answered fields replaced (an empty or blank answer keeps the
\* field: with only the age answered, name and grade are as before), keeps
\* the keys of the dict, and leaves every other record as it was.
C11_UpdateOverwritesSupplied ==
    /\ \A i \in UpdateKeys, n \in UpdateNames, a \in UpdateAges, g \in UpdateGrades :
          HasKey(students, Strip(i))
          => LET old == DictGet(students, Strip(i))
                 r == UpdateOutcome(students, i, n, a, g)
             IN  r.ok
                 => /\ Get(r.students, i) = <<Supplied(old, n, a, g)>>
                    /\ DictGet(r.students, Strip(i)).id = old.id
                    /\ Keys(r.students) = Keys(students)
                    /\ Len(r.students) = Len(students)
                    /\ \A k \in Keys(students) \ {Strip(i)} :
                          DictFind(r.students, k) = DictFind(students, k)
    /\ (op = "update" /\ ret = TRUE)
       => (msg = "Student updated successfully!" /\ HasKey(students, student_id))

\* an update of record a that went through, with record b standing by
C11_Witness ==
    /\ op = "update"
    /\ ret = TRUE
    /\ Len(students) = 2
    /\ DictFind(students, <<"a">>) = <<Student(<<"a">>, <<"m">>, 0, <<"h">>)>>
    /\ HasKey(students, <<"b">>)

\* the steps that stay with the manager at hand (Restart and SaveReload go
\* on with a new manager, whose dict is what load_data reads from the file)
SameManager == {"search", "add", "update", "delete"}

\* C12: a delete of an id the dict holds returns True, removes that entry
\* and leaves every other entry as it was; a search for an id the dict does
\* not hold returns None; and while the manager lives, the only step that
\* makes an absent id present is an add of that id that went through.
C12_DeleteThenGet ==
    [][ /\ (op' = "delete" /\ HasKey(students, student_id'))
           => /\ ret' = TRUE
              /\ ~HasKey(students', student_id')
              /\ DictFind(students', student_id') = <<>>
              /\ Len(students') = Len(students) - 1
              /\ \A k \in Keys(students) \ {student_id'} :
                    DictFind(students', k) = DictFind(students, k)
        /\ (op' = "search" /\ ~HasKey(students, student_id'))
           => (found' = <<>> /\ ret' = FALSE /\ msg' = "Student not found.")
        /\ op' \in SameManager
           => \A k \in Keys(students') \ Keys(students) :
                 (op' = "add" /\ ret' = TRUE /\ student_id' = k) ]_vars

\* record a has been deleted from a dict that held a and b
C12_Witness ==
    /\ op = "delete"
    /\ ret = TRUE
    /\ student_id = <<"a">>
    /\ Keys(students) = {<<"b">>}

\* the four classes a caller may select
Recognized == {"upper", "lower", "digits", "special"}

\* the arguments of the call at hand that generate_password is to refuse
InvalidArguments ==
    \/ length <= 0
    \/ char_types = {}
    \/ ~(char_types \subseteq Recognized)

\* C13: a call of generate_password with a length that is not positive, or
\* with a set of classes that is empty or holds a name outside upper,
\* lower, digits and special (with or without recognized names beside it),
\* raises and returns no password.
C13_InvalidInputRejected ==
    (call = "generate_password" /\ InvalidArguments)
    => (pc = "raised" /\ error # "" /\ password = <<>>)

\* the characters of a password
Chars(p) == {p[i] : i \in 1..Len(p)}

\* the characters of the selected classes
SelectedChars(types) == UNION {char_sets[t] : t \in types}

\* C14: a call of generate_password with a positive length and a non-empty
\* set of recognized classes returns, and every password it can return has
\* exactly length characters, each one a character of a selected class;
\* with only digits selected each one is a digit.
C14_PasswordFromSelectedClasses ==
    (call = "generate_password" /\ ~InvalidArguments)
    => /\ pc = "returned"
       /\ Len(password) = length
       /\ Chars(password) \subseteq SelectedChars(char_types)
       /\ char_types = {"digits"} => \A c \in Chars(password) : IsDigit(c)

\* a password of the greatest length with only digits selected
C14_Witness ==
    /\ call = "generate_password"
    /\ pc = "returned"
    /\ char_types = {"digits"}
    /\ length = MaxLength
    /\ Chars(password) = {"0", "9"}

\* C15: a call of generate_multiple_passwords with a count that is not
\* negative, a positive length and a non-empty set of recognized classes
\* returns exactly count passwords, each of exactly length characters of
\* the selected classes; a call for at least one password with a length or
\* a set of classes that generate_password is to refuse raises and returns
\* no list.
C15_ManyAsRepeatedGenerate ==
    call = "generate_multiple_passwords"
    => /\ (count >= 0 /\ ~InvalidArguments)
          => /\ pc = "returned"
             /\ Len(passwords) = count
             /\ \A i \in 1..Len(passwords) :
                   /\ Len(passwords[i]) = length
                   /\ Chars(passwords[i]) \subseteq SelectedChars(char_types)
       /\ (count >= 1 /\ InvalidArguments)
          => (pc = "raised" /\ error # "" /\ passwords = <<>>)

====
